---- MODULE Spec2Model ----
(***************************************************************************)
(* Model of src-tauri/src/transcription.rs: the four Tauri commands        *)
(* get_model_status, download_whisper_model, delete_whisper_model and      *)
(* transcribe_audio, run concurrently by the host dispatcher against one    *)
(* managed WhisperState { context: Mutex<Option<WhisperContext>>,           *)
(* model_path: Mutex<Option<PathBuf>> } and the model files on disk.        *)
(*                                                                         *)
(* Each command is split at its accesses to shared state (a file probe, a  *)
(* lock acquisition, a write under a lock, a file write or removal); the   *)
(* code between two such accesses only touches locals and is folded into   *)
(* the step that precedes it; so the invocation of a command is one step   *)
(* with its first file probe, and the network transfer of a download is    *)
(* one step with the existence check before it.  A local that is not read  *)
(* again is reset; the model_type of a download, and one that was          *)
(* rejected, stay visible until the caller takes the result.               *)
(*                                                                         *)
(* Environment assumption: the application data directory resolves and     *)
(* "models" can be created, so get_model_path (lines 36-55) returns Ok.     *)
(***************************************************************************)
EXTENDS Integers, FiniteSets, Sequences, TLC

\* ---------------------------------------------------------------- bounds
NumProcs == 2

MaxCalls == 3

\* ------------------------------------------------------------- constants
Procs == 1..NumProcs

None == "none"

\* no holder of a mutex
NoProc == 0

\* the two model tiers, named by the identifier the commands accept
Tiers == {"tiny", "base"}

\* tier identifiers a caller may pass: the two valid ones and an invalid one
TierArgs == Tiers \cup {"large"}

\* audio_data inputs: a WAV that hound decodes, and bytes it rejects
AudioArgs == {"wav_ok", "wav_bad"}

\* a model file is absent, complete, or truncated (left by a partial write)
FileStates == {"absent", "valid", "truncated"}

\* what get_model_status returns when neither file exists
NotDownloaded == "NotDownloaded"

VARIABLES
  files,        \* [Tiers -> FileStates]: ggml-<tier>.en.bin in the models dir
  context,      \* WhisperState.context: None, or the tier it was loaded from
  model_path,   \* WhisperState.model_path: None, or the tier whose path it is
  ctxLock,      \* holder of the context mutex (NoProc or a process)
  pathLock,     \* holder of the model_path mutex (NoProc or a process)
  pc,           \* per call: position in the command
  op,           \* per call: the command invoked
  arg,          \* per call: model_type of download / delete
  tiny_exists,  \* per call: local tiny_exists of get_model_status
  status,       \* per call: ModelStatus.model_type / model_path computed
  result,       \* per call: Ok or the error returned
  calls,        \* history: number of commands invoked so far
  nLoad,        \* history: number of load_whisper_context invocations
  nLoadFail,    \* history: how many of them returned Err
  loadedBy,     \* history: the call in progress that did the latest load
  cleared,      \* history: some delete has cleared a cached context
  callCtx,      \* history, per delete call: context at its invocation
  scen,         \* history, per call: see delete_whisper_model_remove
  noModelSince, \* history: the only tier was deleted, no file created since
  sent,         \* history, per call: it has sent the GET request (line 130)
  stage,        \* position in the part of transcribe_audio run on its own
  segments,     \* the segment texts the backend emitted, in index order
  i,            \* the loop variable i of lines 286-292
  full_text,    \* the local full_text
  final_text,   \* the local final_text, the text returned
  channels,     \* spec.channels of the WAV header
  samples,      \* the local samples, interleaved
  mono_samples  \* the local mono_samples

vars == <<files, context, model_path, ctxLock, pathLock, pc, op, arg,
          tiny_exists, status, result, calls, nLoad, nLoadFail, loadedBy,
          cleared, callCtx, scen, noModelSince, sent,
          stage, segments, i, full_text, final_text,
          channels, samples, mono_samples>>

\* the locals of the segment read-back (lines 277-300) and of the mono
\* downmix (lines 245-253), which are studied on their own below
locals == <<stage, segments, i, full_text, final_text,
            channels, samples, mono_samples>>

shared == <<files, context, model_path, ctxLock, pathLock>>

history ==
  <<nLoad, nLoadFail, loadedBy, cleared, callCtx, scen, noModelSince, sent>>

\* ------------------------------------------------------------------ Init
\* no segment read-back and no downmix is under study
NoLocals ==
  /\ stage = "none"
  /\ segments = <<>>
  /\ i = 0
  /\ full_text = <<>>
  /\ final_text = <<>>
  /\ channels = 1
  /\ samples = <<>>
  /\ mono_samples = <<>>

\* WhisperState::new(): both fields None, both mutexes free.  The model
\* directory holds whatever complete files earlier runs have left there.
NewState ==
  /\ files \in [Tiers -> {"absent", "valid"}]
  /\ context = None
  /\ model_path = None
  /\ ctxLock = NoProc
  /\ pathLock = NoProc
  /\ pc = [p \in Procs |-> "idle"]
  /\ op = [p \in Procs |-> None]
  /\ arg = [p \in Procs |-> None]
  /\ tiny_exists = [p \in Procs |-> FALSE]
  /\ status = [p \in Procs |-> None]
  /\ result = [p \in Procs |-> None]
  /\ calls = 0
  /\ nLoad = 0
  /\ nLoadFail = 0
  /\ loadedBy = NoProc
  /\ cleared = FALSE
  /\ callCtx = [p \in Procs |-> None]
  /\ scen = [p \in Procs |-> FALSE]
  /\ noModelSince = FALSE
  /\ sent = [p \in Procs |-> FALSE]

Init == NewState /\ NoLocals

\* Path::exists on the file of tier t
exists(t) == files[t] # "absent"

\* load_whisper_context: the backend accepts a complete model file only
load_whisper_context(t) == files[t] = "valid"

\* the command goes on to position l
Goto(p, l) ==
  /\ pc' = [pc EXCEPT ![p] = l]
  /\ UNCHANGED <<result, arg>>

\* the command returns r; its locals are dropped.  history: t, the
\* model_type it was called with, or None, stays visible until the caller
\* takes the result
FinishWith(p, r, t) ==
  /\ pc' = [pc EXCEPT ![p] = "done"]
  /\ result' = [result EXCEPT ![p] = r]
  /\ arg' = [arg EXCEPT ![p] = t]
  /\ status' = [status EXCEPT ![p] = None]

\* the command returns r; its arguments and locals are dropped
Finish(p, r) == FinishWith(p, r, None)

\* the command rejects model_type t (lines 107, 161) and returns
Reject(p, t) == FinishWith(p, "InvalidArgument", t)

\* --------------------------------------------------------- invocations
\* the dispatcher starts command o on a free task
Invoke(p, o) ==
  /\ pc[p] = "idle"
  /\ calls < MaxCalls
  /\ calls' = calls + 1
  /\ op' = [op EXCEPT ![p] = o]

\* the caller takes the result
Return(p) ==
  /\ pc[p] = "done"
  /\ pc' = [pc EXCEPT ![p] = "idle"]
  /\ op' = [op EXCEPT ![p] = None]
  /\ result' = [result EXCEPT ![p] = None]
  /\ callCtx' = [callCtx EXCEPT ![p] = None]
  /\ scen' = [scen EXCEPT ![p] = FALSE]
  /\ loadedBy' = IF loadedBy = p THEN NoProc ELSE loadedBy
  /\ arg' = [arg EXCEPT ![p] = None]
  /\ sent' = [sent EXCEPT ![p] = FALSE]
  /\ UNCHANGED <<shared, tiny_exists, status, calls, nLoad, nLoadFail,
                 cleared, noModelSince>>
  /\ UNCHANGED locals

\* ----------------------------------------------------- get_model_status
\* where get_model_status goes once ModelStatus st is computed (and, if a
\* path was found, recorded): the command returns it (lines 91-96);
\* transcribe_audio (lines 203-209) fails when nothing is downloaded, else
\* goes for the lock with status.model_path
AfterStatus(p, st) ==
  IF op[p] = "get_model_status"
  THEN Finish(p, IF st = None THEN NotDownloaded ELSE st)
  ELSE IF st = None THEN Finish(p, "NoModelError")
  ELSE Goto(p, "tr_lock") /\ status' = [status EXCEPT ![p] = st]

\* lines 62-64, entered by command o: probe the tiny.en file
get_model_status_tiny(p, o) ==
  /\ Invoke(p, o)
  /\ tiny_exists' = [tiny_exists EXCEPT ![p] = exists("tiny")]
  /\ Goto(p, "gs_base")
  /\ UNCHANGED <<shared, status, nLoad, nLoadFail, loadedBy, cleared, callCtx,
                 noModelSince, sent>>
  /\ UNCHANGED locals

\* lines 57-64: the command get_model_status is invoked
call_get_model_status(p) ==
  /\ get_model_status_tiny(p, "get_model_status")
  /\ UNCHANGED scen

\* lines 194-203: transcribe_audio is invoked and calls get_model_status.
\* history: scen marks a transcribe invoked after the only tier was deleted
call_transcribe_audio(p) ==
  /\ get_model_status_tiny(p, "transcribe")
  /\ scen' = [scen EXCEPT ![p] = noModelSince]

\* lines 66-86, for a call that takes base_exists for the result of the
\* probe and lets base win iff base_first: probe the base.en file and pick
\* the model
StatusBase(p, base_exists, base_first) ==
  /\ pc[p] = "gs_base"
  /\ LET first  == IF base_first THEN base_exists ELSE tiny_exists[p]
         second == IF base_first THEN tiny_exists[p] ELSE base_exists
         model_type == IF first THEN (IF base_first THEN "base" ELSE "tiny")
                       ELSE IF second
                       THEN (IF base_first THEN "tiny" ELSE "base")
                       ELSE None
     IN IF model_type # None
        THEN Goto(p, "gs_lock") /\ status' = [status EXCEPT ![p] = model_type]
        ELSE AfterStatus(p, model_type)
  /\ tiny_exists' = [tiny_exists EXCEPT ![p] = FALSE]
  /\ UNCHANGED <<shared, op, calls, history>>
  /\ UNCHANGED locals

\* variant: tiny wins when both files exist
get_model_status_base_tiny_first(p) == StatusBase(p, exists("base"), FALSE)

\* variant: the probe accepts a complete model file only
get_model_status_base_verifying(p) ==
  StatusBase(p, load_whisper_context("base"), TRUE)

\* lines 66-86: base_path.exists(); base wins over tiny (lines 71-83)
get_model_status_base(p) == StatusBase(p, exists("base"), TRUE)

\* variant: the write of model_path goes ahead without taking its mutex
get_model_status_lock_unguarded(p) ==
  /\ pc[p] = "gs_lock"
  /\ Goto(p, "gs_write")
  /\ UNCHANGED <<shared, op, tiny_exists, status, calls, history>>
  /\ UNCHANGED locals

\* line 87: state.model_path.lock()
get_model_status_lock(p) ==
  /\ pc[p] = "gs_lock"
  /\ pathLock = NoProc
  /\ pathLock' = p
  /\ Goto(p, "gs_write")
  /\ UNCHANGED <<files, context, model_path, ctxLock, op, tiny_exists,
                 status, calls, history>>
  /\ UNCHANGED locals

\* lines 88-96: *state_path = Some(path); the guard drops; return the status
get_model_status_write(p) ==
  /\ pc[p] = "gs_write"
  /\ model_path' = status[p]
  /\ pathLock' = NoProc
  /\ AfterStatus(p, status[p])
  /\ UNCHANGED <<files, context, ctxLock, op, tiny_exists, calls, history>>
  /\ UNCHANGED locals

\* ------------------------------------------------ download_whisper_model
\* lines 99-141, for a call that validates model_type before anything else
\* iff validated and returns early on an existing file iff skip:
\* download_whisper_model is invoked with model_type t: reject an unknown
\* model_type; nothing to do if the file is already there; otherwise GET
\* the model: transport failure, a non-success status or a failed body read
\* end the command.  history: sent marks a call that issued the request
DownloadCall(p, validated, skip) ==
  /\ Invoke(p, "download")
  /\ \E t \in TierArgs, fetched \in BOOLEAN :
       IF t \notin Tiers
       THEN /\ Reject(p, t)
            /\ sent' = [sent EXCEPT ![p] = ~validated]
       ELSE IF skip /\ exists(t)
       THEN /\ FinishWith(p, "OkAlreadyDownloaded", t)
            /\ UNCHANGED sent
       ELSE /\ sent' = [sent EXCEPT ![p] = TRUE]
            /\ IF ~fetched THEN FinishWith(p, "NetworkError", t)
               ELSE /\ pc' = [pc EXCEPT ![p] = "dl_write"]
                    /\ arg' = [arg EXCEPT ![p] = t]
                    /\ UNCHANGED <<result, status>>
  /\ UNCHANGED <<shared, tiny_exists, nLoad, nLoadFail, loadedBy, cleared,
                 callCtx, scen, noModelSince>>
  /\ UNCHANGED locals

\* variant: the request goes out although the file is already there
call_download_whisper_model_refetching(p) == DownloadCall(p, TRUE, FALSE)

\* variant: model_type is validated only when the URL is picked (line 121)
\* and the request is built from a default
call_download_whisper_model_late_check(p) == DownloadCall(p, FALSE, TRUE)

\* lines 99-141: the match on model_type comes first, the existence check
\* before the request
call_download_whisper_model(p) == DownloadCall(p, TRUE, TRUE)

\* line 144, first half, for a call that goes ahead when free holds:
\* std::fs::write opens the file with create+truncate; if the open fails
\* nothing changes, otherwise the file exists, incomplete.
\* history: a file was created, so the marks of C4's scenario are dropped
DownloadWrite(p, free) ==
  /\ pc[p] = "dl_write"
  /\ free
  /\ \E opened \in BOOLEAN :
       IF opened
       THEN /\ files' = [files EXCEPT ![arg[p]] = "truncated"]
            /\ Goto(p, "dl_write_end")
            /\ scen' = [q \in Procs |-> FALSE]
            /\ noModelSince' = FALSE
            /\ UNCHANGED status
       ELSE /\ FinishWith(p, "IOError", arg[p])
            /\ UNCHANGED <<files, scen, noModelSince>>
  /\ UNCHANGED <<context, model_path, ctxLock, pathLock, op, tiny_exists,
                 calls, nLoad, nLoadFail, loadedBy, cleared, callCtx, sent>>
  /\ UNCHANGED locals

\* variant: the write waits until nobody holds the context mutex
download_whisper_model_write_guarded(p) == DownloadWrite(p, ctxLock = NoProc)

\* line 144, first half: the write takes no lock and waits for nothing
download_whisper_model_write(p) == DownloadWrite(p, TRUE)

\* some other download is in the middle of writing the file p writes
OtherWriter(p) ==
  \E q \in Procs \ {p} : pc[q] = "dl_write_end" /\ arg[q] = arg[p]

\* lines 144-149, second half: all bytes written, or the write fails partway
\* and leaves the truncated file behind.  While another download that
\* truncated the same file is still writing, the content may be incomplete
\* although this write has finished
download_whisper_model_write_end(p) ==
  /\ pc[p] = "dl_write_end"
  /\ \E ok \in BOOLEAN, whole \in BOOLEAN :
       IF ok
       THEN /\ files' = [files EXCEPT ![arg[p]] =
                           IF whole \/ ~OtherWriter(p)
                           THEN "valid" ELSE "truncated"]
            /\ FinishWith(p, "Ok", arg[p])
       ELSE /\ FinishWith(p, "IOError", arg[p])
            /\ UNCHANGED files
  /\ UNCHANGED <<context, model_path, ctxLock, pathLock, op, tiny_exists,
                 calls, history>>
  /\ UNCHANGED locals

\* lines 144-149, second half, when delete has removed the file meanwhile:
\* the bytes go to the unlinked file, the path stays absent
download_whisper_model_write_unlinked(p) ==
  /\ pc[p] = "dl_write_unlinked"
  /\ \E ok \in BOOLEAN :
       FinishWith(p, IF ok THEN "Ok" ELSE "IOError", arg[p])
  /\ UNCHANGED <<shared, op, tiny_exists, calls, history>>
  /\ UNCHANGED locals

\* -------------------------------------------------- delete_whisper_model
\* lines 152-168, for a call that resets the cache on an absent file iff
\* reset: delete_whisper_model is invoked with model_type t: reject an
\* unknown model_type; an absent file is reported as "not found", with Ok.
\* history: callCtx remembers the context cached at this moment; scen marks
\* a delete of the only tier present while the context loaded from it is cached
DeleteCall(p, reset) ==
  /\ Invoke(p, "delete")
  /\ \E t \in TierArgs :
       /\ IF t \notin Tiers
          THEN Reject(p, t) /\ UNCHANGED context
          ELSE IF ~exists(t)
          THEN /\ Finish(p, "OkNotFound")
               /\ context' = IF reset THEN None ELSE context
          ELSE /\ pc' = [pc EXCEPT ![p] = "del_lock"]
               /\ arg' = [arg EXCEPT ![p] = t]
               /\ UNCHANGED <<result, status, context>>
       /\ scen' = [scen EXCEPT ![p] =
                     /\ t \in Tiers
                     /\ context = t
                     /\ \A u \in Tiers : exists(u) <=> u = t]
  /\ callCtx' = [callCtx EXCEPT ![p] = context]
  /\ UNCHANGED <<files, model_path, ctxLock, pathLock, tiny_exists, nLoad,
                 nLoadFail, loadedBy, cleared, noModelSince, sent>>
  /\ UNCHANGED locals

\* variant: the cache is reset even when the file turns out to be absent
call_delete_whisper_model_resetting(p) == DeleteCall(p, TRUE)

\* lines 152-168: the early return on an absent file leaves the cache alone
call_delete_whisper_model(p) == DeleteCall(p, FALSE)

\* variant: delete does not wait for the context mutex
delete_whisper_model_lock_nowait(p) ==
  /\ pc[p] = "del_lock"
  /\ ctxLock' = p
  /\ Goto(p, "del_clear")
  /\ UNCHANGED <<files, context, model_path, pathLock, op, tiny_exists,
                 status, calls, history>>
  /\ UNCHANGED locals

\* line 172: state.context.lock()
delete_whisper_model_lock(p) ==
  /\ pc[p] = "del_lock"
  /\ ctxLock = NoProc
  /\ ctxLock' = p
  /\ Goto(p, "del_clear")
  /\ UNCHANGED <<files, context, model_path, pathLock, op, tiny_exists,
                 status, calls, history>>
  /\ UNCHANGED locals

\* variant: the context is cleared only if it was loaded from the deleted tier
delete_whisper_model_clear_if_current(p) ==
  /\ pc[p] = "del_clear"
  /\ context' = IF context = arg[p] THEN None ELSE context
  /\ cleared' = (cleared \/ context = arg[p])
  /\ ctxLock' = NoProc
  /\ Goto(p, "del_remove")
  /\ UNCHANGED <<files, model_path, pathLock, op, tiny_exists, status, calls,
                 nLoad, nLoadFail, loadedBy, callCtx, scen, noModelSince,
                 sent>>
  /\ UNCHANGED locals

\* lines 173-174: *context = None; the guard drops at the end of the block
delete_whisper_model_clear(p) ==
  /\ pc[p] = "del_clear"
  /\ context' = None
  /\ cleared' = (cleared \/ context # None)
  /\ ctxLock' = NoProc
  /\ Goto(p, "del_remove")
  /\ UNCHANGED <<files, model_path, pathLock, op, tiny_exists, status, calls,
                 nLoad, nLoadFail, loadedBy, callCtx, scen, noModelSince,
                 sent>>
  /\ UNCHANGED locals

\* variant: delete reports success and leaves the file in place
delete_whisper_model_remove_skipped(p) ==
  /\ pc[p] = "del_remove"
  /\ Finish(p, "Ok")
  /\ noModelSince' = (noModelSince \/ scen[p])
  /\ UNCHANGED <<shared, op, tiny_exists, calls, nLoad, nLoadFail, loadedBy,
                 cleared, callCtx, scen, sent>>
  /\ UNCHANGED locals

\* lines 176-182: std::fs::remove_file; it fails if the file is gone by now
\* or cannot be removed.  A download still writing the file keeps writing
\* to the unlinked file.  history: a successful delete of the only tier
\* (scen, no file created since the invocation) sets noModelSince
delete_whisper_model_remove(p) ==
  /\ pc[p] = "del_remove"
  /\ \E ok \in BOOLEAN :
       IF ok /\ exists(arg[p])
       THEN /\ files' = [files EXCEPT ![arg[p]] = "absent"]
            /\ pc' = [q \in Procs |->
                        IF q = p THEN "done"
                        ELSE IF pc[q] = "dl_write_end" /\ arg[q] = arg[p]
                        THEN "dl_write_unlinked"
                        ELSE pc[q]]
            /\ result' = [result EXCEPT ![p] = "Ok"]
            /\ arg' = [arg EXCEPT ![p] = None]
            /\ status' = [status EXCEPT ![p] = None]
            /\ noModelSince' = (noModelSince \/ scen[p])
       ELSE /\ Finish(p, "IOError")
            /\ UNCHANGED <<files, noModelSince>>
  /\ UNCHANGED <<context, model_path, ctxLock, pathLock, op, tiny_exists,
                 calls, nLoad, nLoadFail, loadedBy, cleared, callCtx,
                 scen, sent>>
  /\ UNCHANGED locals

\* ------------------------------------------------------ transcribe_audio
\* line 212: state.context.lock(); the guard lives until the function returns
transcribe_audio_lock(p) ==
  /\ pc[p] = "tr_lock"
  /\ ctxLock = NoProc
  /\ ctxLock' = p
  /\ Goto(p, "tr_load")
  /\ UNCHANGED <<files, context, model_path, pathLock, op, tiny_exists,
                 status, calls, history>>
  /\ UNCHANGED locals

\* the load step of transcribe_audio, lines 214-219, for a call that loads
\* iff cached is false, from the file of tier path, and on a failed load
\* drops the guard iff release: on Err the ? returns before the assignment.
\* model_path (the local) is not read after this step
LoadStep(p, cached, path, release) ==
  /\ pc[p] = "tr_load"
  /\ IF ~cached
     THEN /\ nLoad' = nLoad + 1
          /\ IF path # None /\ load_whisper_context(path)
             THEN /\ context' = path
                  /\ loadedBy' = p
                  /\ Goto(p, "tr_decode")
                  /\ status' = [status EXCEPT ![p] = None]
                  /\ UNCHANGED <<ctxLock, nLoadFail>>
             ELSE /\ Finish(p, "ModelLoadError")
                  /\ ctxLock' = IF release THEN NoProc ELSE ctxLock
                  /\ nLoadFail' = nLoadFail + 1
                  /\ UNCHANGED <<context, loadedBy>>
     ELSE /\ Goto(p, "tr_decode")
          /\ status' = [status EXCEPT ![p] = None]
          /\ UNCHANGED <<context, ctxLock, nLoad, nLoadFail, loadedBy>>
  /\ UNCHANGED <<files, model_path, pathLock, op, tiny_exists, calls,
                 cleared, callCtx, scen, noModelSince, sent>>
  /\ UNCHANGED locals

\* variant: no is_none() test, every call loads
transcribe_audio_load_always(p) == LoadStep(p, FALSE, status[p], TRUE)

\* variant: the load reads the path from WhisperState.model_path
transcribe_audio_load_state_path(p) ==
  LoadStep(p, context # None, model_path, TRUE)

\* variant: a failed load returns with the context mutex still taken
transcribe_audio_load_keeps_guard(p) ==
  LoadStep(p, context # None, status[p], FALSE)

\* variant: the context is loaded again when the status names another file
transcribe_audio_load_on_change(p) ==
  LoadStep(p, context # None /\ context = status[p], status[p], TRUE)

\* lines 214-219: if context_guard.is_none(), load from status.model_path
transcribe_audio_load(p) == LoadStep(p, context # None, status[p], TRUE)

\* variant: a decoding failure throws the cached context away
transcribe_audio_decode_resetting(p) ==
  /\ pc[p] = "tr_decode"
  /\ \E audio_data \in AudioArgs :
       IF audio_data = "wav_ok"
       THEN Goto(p, "tr_run") /\ UNCHANGED <<status, ctxLock, context>>
       ELSE Finish(p, "FormatError") /\ ctxLock' = NoProc /\ context' = None
  /\ UNCHANGED <<files, model_path, pathLock, op, tiny_exists, calls, history>>
  /\ UNCHANGED locals

\* variant: a decoding failure returns with the context mutex still taken
transcribe_audio_decode_keeps_guard(p) ==
  /\ pc[p] = "tr_decode"
  /\ \E audio_data \in AudioArgs :
       IF audio_data = "wav_ok"
       THEN Goto(p, "tr_run") /\ UNCHANGED status
       ELSE Finish(p, "FormatError")
  /\ UNCHANGED <<shared, op, tiny_exists, calls, history>>
  /\ UNCHANGED locals

\* lines 221-256: audio_data is read here for the first time: hound parses
\* the header and the samples, stereo is averaged to mono; malformed
\* audio_data returns Err and the guard drops
transcribe_audio_decode(p) ==
  /\ pc[p] = "tr_decode"
  /\ \E audio_data \in AudioArgs :
       IF audio_data = "wav_ok"
       THEN Goto(p, "tr_run") /\ UNCHANGED <<status, ctxLock>>
       ELSE Finish(p, "FormatError") /\ ctxLock' = NoProc
  /\ UNCHANGED <<files, context, model_path, pathLock, op, tiny_exists,
                 calls, history>>
  /\ UNCHANGED locals

\* lines 258-300, for a call that drops the cached context on a backend
\* error iff rollback: ctx.create_state(), state_obj.full(params, samples),
\* then the segments are read back and joined; any of the backend calls
\* may fail; the guard drops on return and on a backend error alike
TranscribeRun(p, rollback) ==
  /\ pc[p] = "tr_run"
  /\ \E ok \in BOOLEAN :
       /\ Finish(p, IF ok THEN "Ok" ELSE "TranscriptionError")
       /\ context' = IF ~ok /\ rollback THEN None ELSE context
  /\ ctxLock' = NoProc
  /\ UNCHANGED <<files, model_path, pathLock, op, tiny_exists, calls, history>>
  /\ UNCHANGED locals

\* variant: a backend error throws the cached context away
transcribe_audio_run_rollback(p) == TranscribeRun(p, TRUE)

\* lines 258-300: the cached context is left as it is
transcribe_audio_run(p) == TranscribeRun(p, FALSE)

\* ------------------------------------------------------------------ Next
Next ==
  \E p \in Procs :
    \/ call_get_model_status(p)
    \/ call_download_whisper_model(p)
    \/ call_delete_whisper_model(p)
    \/ call_transcribe_audio(p)
    \/ Return(p)
    \/ get_model_status_base(p)
    \/ get_model_status_lock(p)
    \/ get_model_status_write(p)
    \/ download_whisper_model_write(p)
    \/ download_whisper_model_write_end(p)
    \/ download_whisper_model_write_unlinked(p)
    \/ delete_whisper_model_lock(p)
    \/ delete_whisper_model_clear(p)
    \/ delete_whisper_model_remove(p)
    \/ transcribe_audio_lock(p)
    \/ transcribe_audio_load(p)
    \/ transcribe_audio_decode(p)
    \/ transcribe_audio_run(p)

Spec == Init /\ [][Next]_vars

\* ------------------------------------------------------------- fairness
\* the steps of call p between its invocation and its return
Run(p) ==
  \/ get_model_status_base(p)
  \/ get_model_status_lock(p)
  \/ get_model_status_write(p)
  \/ download_whisper_model_write(p)
  \/ download_whisper_model_write_end(p)
  \/ download_whisper_model_write_unlinked(p)
  \/ delete_whisper_model_lock(p)
  \/ delete_whisper_model_clear(p)
  \/ delete_whisper_model_remove(p)
  \/ transcribe_audio_lock(p)
  \/ transcribe_audio_load(p)
  \/ transcribe_audio_decode(p)
  \/ transcribe_audio_run(p)

\* Every command runs on a thread of the runtime, and a thread that can
\* take its next step does so in the end; every file, network and backend
\* call returns.  Invocations and the callers' returns are not forced.
FairSpec == Spec /\ \A p \in Procs : WF_vars(Run(p))

\* ------------------------------------------------------------ type check
TypeOK ==
  /\ files \in [Tiers -> FileStates]
  /\ context \in Tiers \cup {None}
  /\ model_path \in Tiers \cup {None}
  /\ ctxLock \in Procs \cup {NoProc}
  /\ pathLock \in Procs \cup {NoProc}
  /\ status \in [Procs -> Tiers \cup {None}]
  /\ arg \in [Procs -> TierArgs \cup {None}]
  /\ calls \in 0..MaxCalls
  /\ nLoad \in 0..MaxCalls
  /\ nLoadFail \in 0..nLoad
  /\ loadedBy \in Procs \cup {NoProc}

\* =================================================================
\* The segment read-back of transcribe_audio (lines 277-300) on its own
\* =================================================================
\* A string is a sequence of characters.  Two characters stand for all:
\* a letter and a whitespace character.
MaxSegs == 3

MaxSegLen == 2

Chars == {"a", " "}

Strings == UNION {[1..n -> Chars] : n \in 0..MaxSegLen}

\* what full_get_segment_text can return for segments 0..n-1
SegmentLists == UNION {[1..n -> Strings] : n \in 0..MaxSegs}

\* char::is_whitespace
is_whitespace(c) == c = " "

\* str::trim_start
RECURSIVE trim_start(_)
trim_start(s) ==
  IF s # <<>> /\ is_whitespace(Head(s)) THEN trim_start(Tail(s)) ELSE s

\* str::trim_end
RECURSIVE trim_end(_)
trim_end(s) ==
  IF s # <<>> /\ is_whitespace(s[Len(s)])
  THEN trim_end(SubSeq(s, 1, Len(s) - 1))
  ELSE s

\* str::trim (line 294)
trim(s) == trim_end(trim_start(s))

\* lines 277-285: recognition has succeeded and emitted num_segments
\* segments; full_text = String::new()
InitSegments ==
  /\ NewState
  /\ files = [t \in Tiers |-> "valid"]
  /\ stage = "loop"
  /\ segments \in SegmentLists
  /\ i = 0
  /\ full_text = <<>>
  /\ final_text = <<>>
  /\ channels = 1
  /\ samples = <<>>
  /\ mono_samples = <<>>

\* lines 286-292, one turn of the loop, pushing sep after the segment:
\* full_get_segment_text(i) may fail, which ends the command with an error
SegmentPush(sep) ==
  /\ stage = "loop"
  /\ i < Len(segments)
  /\ \E ok \in BOOLEAN :
       IF ok
       THEN /\ full_text' = full_text \o segments[i + 1] \o sep
            /\ i' = i + 1
            /\ UNCHANGED stage
       ELSE /\ stage' = "error"
            /\ UNCHANGED <<full_text, i>>
  /\ UNCHANGED <<segments, final_text, channels, samples, mono_samples>>
  /\ UNCHANGED <<shared, pc, op, arg, tiny_exists, status, result, calls,
                 history>>

\* variant: the segments are pushed one after the other with nothing between
segment_push_no_space == SegmentPush(<<>>)

\* lines 286-292: full_text.push_str(&segment); full_text.push(' ')
segment_push == SegmentPush(<<" ">>)

\* lines 294-300: the loop is over; final_text = full_text.trim(); return
\* Ok(TranscriptionResult { text: final_text, success: true })
segments_return ==
  /\ stage = "loop"
  /\ i = Len(segments)
  /\ final_text' = trim(full_text)
  /\ stage' = "done"
  /\ UNCHANGED <<segments, i, full_text, channels, samples, mono_samples>>
  /\ UNCHANGED <<shared, pc, op, arg, tiny_exists, status, result, calls,
                 history>>

NextSegments == segment_push \/ segments_return

SpecSegments == InitSegments /\ [][NextSegments]_vars

\* =================================================================
\* The mono downmix of transcribe_audio (lines 245-253) on its own
\* =================================================================
\* A sample value is written as an integer number of units of 1/65536.
\* A 16-bit sample s decodes to s / 32768.0 (line 239), which is 2 * s
\* units; sums and halves of such values are exact in f32.
MaxFrames == 2

MaxAmp == 2

\* the i16 sample values of the input
Amps == (0 - MaxAmp)..MaxAmp

\* lines 236-242: the samples of the WAV, each as f32 divided by 32768.0
Decoded(raw) == [k \in 1..Len(raw) |-> 2 * raw[k]]

\* lines 221-243: the WAV is decoded; hound yields whole frames only, so
\* the number of samples is a multiple of the number of channels
InitDownmix ==
  /\ NewState
  /\ files = [t \in Tiers |-> "valid"]
  /\ stage = "mix"
  /\ channels \in {1, 2}
  /\ \E n \in 0..MaxFrames :
       \E raw \in [1..(channels * n) -> Amps] : samples = Decoded(raw)
  /\ mono_samples = <<>>
  /\ segments = <<>>
  /\ i = 0
  /\ full_text = <<>>
  /\ final_text = <<>>

\* (chunk[0] + chunk[1]) / 2.0 (line 249)
mean_of(a, b) == (a + b) \div 2

\* lines 246-250, one chunk of samples.chunks(2), for a call that halves
\* the sum of the chunk iff balanced, and the second value only otherwise
DownmixChunk(balanced) ==
  /\ stage = "mix"
  /\ channels = 2
  /\ LET k == Len(mono_samples)
         chunk == <<samples[2 * k + 1], samples[2 * k + 2]>>
     IN IF 2 * k < Len(samples)
        THEN /\ mono_samples' =
                  Append(mono_samples,
                         IF balanced THEN mean_of(chunk[1], chunk[2])
                         ELSE chunk[1] + (chunk[2] \div 2))
             /\ UNCHANGED stage
        ELSE /\ stage' = "mixed"
             /\ UNCHANGED mono_samples
  /\ UNCHANGED <<segments, i, full_text, final_text, channels, samples>>
  /\ UNCHANGED <<shared, pc, op, arg, tiny_exists, status, result, calls,
                 history>>

\* variant: chunk[0] + chunk[1] / 2.0
downmix_chunk_unbalanced == DownmixChunk(FALSE)

\* lines 246-250: samples.chunks(2).map(|chunk| (chunk[0] + chunk[1]) / 2.0)
downmix_chunk == DownmixChunk(TRUE)

\* lines 251-253: any other channel count: mono_samples = samples
downmix_passthrough ==
  /\ stage = "mix"
  /\ channels # 2
  /\ mono_samples' = samples
  /\ stage' = "mixed"
  /\ UNCHANGED <<segments, i, full_text, final_text, channels, samples>>
  /\ UNCHANGED <<shared, pc, op, arg, tiny_exists, status, result, calls,
                 history>>

NextDownmix == downmix_chunk \/ downmix_passthrough

SpecDownmix == InitDownmix /\ [][NextDownmix]_vars

\* =================================================================
\* Properties
\* =================================================================

\* positions of transcribe_audio between taking the context mutex and
\* dropping it: load, decode, recognition with segment read-back
Guarded == {"tr_load", "tr_decode", "tr_run"}

\* positions of transcribe_audio after the load step
PastLoad == {"tr_decode", "tr_run"}

\* successful loads so far
nLoadOk == nLoad - nLoadFail

\* p takes the step from position a to position b
Step(p, a, b) == pc[p] = a /\ pc'[p] = b

\* p performs a successful load in this step
Loads(p) == Step(p, "tr_load", "tr_decode") /\ context = None

\* ------------------------------------------------------------------ C1
\* C1: as long as no delete has cleared a cached context (so whenever no
\* delete call was made at all), at most one load has succeeded, a context
\* is cached exactly if one load has succeeded, every transcribe call past
\* its load step holds the guard and finds the context cached, and if no
\* load failed the backend was invoked at most once.
C1_SingleLoad ==
  ~cleared =>
    /\ nLoadOk <= 1
    /\ (nLoadOk = 1) <=> (context # None)
    /\ nLoadFail = 0 => nLoad <= 1
    /\ \A p \in Procs : pc[p] \in PastLoad => ctxLock = p /\ context # None
    /\ \A p \in Procs :
         (op[p] = "transcribe" /\ pc[p] = "done" /\ result[p] = "Ok")
           => nLoadOk = 1

\* two transcribe calls got past the load step, one returned and one is
\* running recognition on the context the other loaded; one load in total
C1_Witness ==
  \E p, q \in Procs :
    /\ p # q
    /\ ~cleared /\ nLoad = 1 /\ nLoadFail = 0
    /\ op[p] = "transcribe" /\ pc[p] = "done" /\ result[p] = "Ok"
    /\ loadedBy = p
    /\ pc[q] = "tr_run"

\* ------------------------------------------------------------------ C2
\* C2: in every reachable state a cached context is backed by a model
\* file that still exists.
C2_ContextBackedByFile == context # None => exists(context)

\* ------------------------------------------------------------------ C3
\* C3: at most one transcribe call is inside the guarded section and it is
\* the holder of the context mutex; while delete is about to clear the
\* context no transcribe call is inside the section; a transcribe call
\* past its load step always finds the context in place.
C3_MutualExclusion ==
  /\ Cardinality({p \in Procs : pc[p] \in Guarded}) <= 1
  /\ \A p \in Procs : pc[p] \in Guarded => ctxLock = p
  /\ \A p \in Procs :
       pc[p] = "del_clear" =>
         /\ ctxLock = p
         /\ \A q \in Procs : pc[q] \notin Guarded
  /\ \A p \in Procs : pc[p] \in PastLoad => context # None

\* a transcribe call runs recognition while a delete waits for the mutex
C3_Witness ==
  \E p, q \in Procs :
    pc[p] = "tr_run" /\ pc[q] = "del_lock" /\ ctxLock = p /\ context # None

\* ------------------------------------------------------------------ C4
\* C4: once a delete of the only tier present, invoked while the context
\* loaded from that tier was cached, has returned Ok and no file has been
\* created since, no model file exists, and a transcribe call invoked
\* after that never gets beyond its status query: it returns NoModelError
\* and reaches neither the lock nor recognition.
C4_DeleteThenNoModel ==
  /\ noModelSince => \A t \in Tiers : ~exists(t)
  /\ \A p \in Procs :
       (op[p] = "transcribe" /\ scen[p]) =>
          /\ pc[p] \in {"gs_base", "done"}
          /\ pc[p] = "done" => result[p] = "NoModelError"

\* the transcribe call that followed such a delete returned NoModelError
C4_Witness ==
  \E p \in Procs :
    /\ op[p] = "transcribe" /\ scen[p]
    /\ pc[p] = "done" /\ result[p] = "NoModelError"

\* ------------------------------------------------------------------ C5
\* C5 as stated: whenever a transcribe call is about to load (it holds the
\* guard and finds no context), the path it loads from is the one held in
\* WhisperState.model_path.
C5_LoadsFromActivePath ==
  \A p \in Procs :
    (pc[p] = "tr_load" /\ context = None) => status[p] = model_path

\* C5 amended: a context is loaded from the path the loading call's own
\* status query resolved, and that query wrote this very path to
\* model_path; model_path at the time of the load may differ.
C5_LoadsFromOwnStatus ==
  [][\A p \in Procs :
       /\ Loads(p) => context' = status[p] /\ load_whisper_context(status[p])
       /\ pc[p] = "gs_write" /\ pc'[p] # "gs_write"
            => model_path' = status[p] /\ status[p] # None]_vars

\* p has loaded from its own path while model_path names the other file
C5_Witness ==
  \E p \in Procs :
    /\ loadedBy = p /\ pc[p] = "tr_decode"
    /\ context # None
    /\ model_path \notin {None, context}

\* ------------------------------------------------------------------ C6
\* C6 as stated: one lock covers both fields, so whenever context or
\* model_path is written the two mutexes are held as one.
C6_OneLock ==
  [][(context' # context \/ model_path' # model_path)
       => (ctxLock # NoProc /\ pathLock = ctxLock)]_vars

\* C6 amended: each field has its own mutex: context changes only in a
\* step of the holder of the context mutex (the load of transcribe, the
\* clear of delete), model_path changes only in a step of the holder of
\* the model_path mutex (the write of get_model_status), and neither step
\* touches the other field.
C6_TwoLocks ==
  [][/\ context' # context =>
          /\ ctxLock # NoProc
          /\ pc[ctxLock] \in {"tr_load", "del_clear"}
          /\ pc'[ctxLock] # pc[ctxLock]
          /\ model_path' = model_path
     /\ model_path' # model_path =>
          /\ pathLock # NoProc
          /\ pc[pathLock] = "gs_write"
          /\ pc'[pathLock] # "gs_write"
          /\ context' = context]_vars

\* the two mutexes are held by two different calls at the same time
C6_Witness ==
  /\ ctxLock # NoProc /\ pathLock # NoProc /\ ctxLock # pathLock
  /\ pc[ctxLock] = "del_clear" /\ pc[pathLock] = "gs_write"

C8_DeleteAlwaysResets ==
  [][\A p \in Procs :
       (op'[p] = "delete" /\ Step(p, "idle", "done")
        /\ result'[p] = "OkNotFound")
         => context' = None]_vars

\* C8 amended: delete resets the cache only if the file is present at its
\* existence check; for an absent file it returns success at once and
\* leaves context, model_path and the files as they were.
C8_AbsentDeleteKeepsCache ==
  [][\A p \in Procs :
       (op'[p] = "delete" /\ pc[p] = "idle") =>
         /\ context' = context
         /\ model_path' = model_path
         /\ files' = files
         /\ result'[p] = "OkNotFound" =>
              pc'[p] = "done" /\ \E t \in Tiers : ~exists(t)
         /\ pc'[p] # "done" =>
              pc'[p] = "del_lock" /\ arg'[p] \in Tiers /\ exists(arg'[p])]_vars

\* delete of an absent tier returned success; the context that was cached
\* at its existence check is still cached
C8_Witness ==
  \E p \in Procs :
    /\ op[p] = "delete" /\ pc[p] = "done" /\ result[p] = "OkNotFound"
    /\ callCtx[p] # None
    /\ context = callCtx[p]

\* ------------------------------------------------------------------ C9
\* C9: a load that fails happens with no context cached, returns
\* ModelLoadError, leaves the context empty and the context mutex free;
\* a call that has returned never holds the mutex, so a later transcribe
\* call can take it, and one that finds no context loads again.
C9_LoadFailureLeavesUnloaded ==
  /\ [][\A p \in Procs :
          (pc[p] = "tr_load" /\ result'[p] = "ModelLoadError") =>
             /\ context = None /\ context' = None
             /\ ctxLock = p /\ ctxLock' = NoProc
             /\ pc'[p] = "done"
             /\ nLoad' = nLoad + 1]_vars
  /\ [](\A p \in Procs : pc[p] \in {"done", "idle"} => ctxLock # p)

\* after p's load failed, q took the guard and loaded successfully
C9_Witness ==
  \E p, q \in Procs :
    /\ pc[p] = "done" /\ result[p] = "ModelLoadError"
    /\ loadedBy = q /\ pc[q] \in PastLoad
    /\ nLoadFail >= 1 /\ nLoadOk >= 1

\* ------------------------------------------------------------------ C10
\* C10: the context starts empty, and every step that takes it from
\* present to empty is the clear step of a delete call.
C10_OnlyDeleteUnloads ==
  /\ context = None
  /\ [][(context # None /\ context' = None)
          => \E p \in Procs : op[p] = "delete"
                              /\ Step(p, "del_clear", "del_remove")]_vars

\* a transcribe call that reused or loaded the context failed at a later
\* step and the context is still cached
C10_Witness ==
  \E p \in Procs :
    /\ op[p] = "transcribe" /\ pc[p] = "done"
    /\ result[p] \in {"FormatError", "TranscriptionError"}
    /\ context # None

\* ------------------------------------------------------------------ C11
\* what a status query reports when the probe of the base file gave b and
\* the probe of the tiny file gave t
StatusOf(b, t) == IF b THEN "base" ELSE IF t THEN "tiny" ELSE None

\* C11: the status a query computes depends on the two file probes only,
\* each at the moment it is made: "base" whenever the base file exists,
\* also when both exist; "tiny" when only the tiny file was found; nothing
\* downloaded (no tier, no path, model_path left alone) when neither was;
\* the status computed is the one get_model_status returns, whatever the
\* cached context and model_path are.
C11_StatusFromFiles ==
  [][\A p \in Procs :
       /\ Step(p, "idle", "gs_base") => tiny_exists'[p] = exists("tiny")
       /\ (pc[p] = "gs_base" /\ pc'[p] # "gs_base") =>
            LET st == StatusOf(exists("base"), tiny_exists[p])
            IN IF st = None
               THEN /\ pc'[p] = "done"
                    /\ result'[p] = IF op[p] = "get_model_status"
                                    THEN NotDownloaded ELSE "NoModelError"
                    /\ model_path' = model_path
               ELSE pc'[p] = "gs_lock" /\ status'[p] = st
       /\ pc[p] = "gs_lock" => status'[p] = status[p]
       /\ (pc[p] = "gs_write" /\ pc'[p] # "gs_write"
           /\ op[p] = "get_model_status") =>
            /\ pc'[p] = "done"
            /\ result'[p] = status[p]
            /\ result'[p] \in Tiers]_vars

\* get_model_status has reported base while both files exist and the
\* cached context is the one loaded from the tiny file
C11_Witness ==
  \E p \in Procs :
    /\ op[p] = "get_model_status" /\ pc[p] = "done" /\ result[p] = "base"
    /\ exists("tiny") /\ exists("base")
    /\ context = "tiny"

\* ------------------------------------------------------------------ C12
\* C12: download of a tier whose file exists returns success in one step
\* without sending a request and leaves the files, the cached context,
\* model_path and the mutexes as they were; the request is sent exactly
\* when the file is absent at the existence check.
C12_DownloadIdempotent ==
  [][\A p \in Procs :
       (pc[p] = "idle" /\ op'[p] = "download" /\ arg'[p] \in Tiers) =>
          IF exists(arg'[p])
          THEN /\ pc'[p] = "done"
               /\ result'[p] = "OkAlreadyDownloaded"
               /\ ~sent'[p]
               /\ UNCHANGED shared
          ELSE /\ sent'[p]
               /\ \/ pc'[p] = "dl_write"
                  \/ pc'[p] = "done" /\ result'[p] = "NetworkError"]_vars

\* a download that wrote the file has returned Ok, and the download of the
\* same tier that followed has returned success without a request
C12_Witness ==
  \E p, q \in Procs :
    /\ op[p] = "download" /\ pc[p] = "done" /\ result[p] = "Ok" /\ sent[p]
    /\ op[q] = "download" /\ pc[q] = "done"
    /\ result[q] = "OkAlreadyDownloaded" /\ ~sent[q]
    /\ arg[q] = arg[p]
    /\ files[arg[p]] = "valid"

\* ------------------------------------------------------------------ C13
\* C13: a download or delete called with a model_type other than "tiny"
\* and "base" returns InvalidArgument in one step, sends no request and
\* leaves files, context, model_path and the mutexes unchanged; no call
\* with a valid model_type returns InvalidArgument.
C13_InvalidTierRejected ==
  [][\A p \in Procs :
       /\ (pc[p] = "idle" /\ arg'[p] \notin Tiers \cup {None}) =>
            /\ op'[p] \in {"download", "delete"}
            /\ pc'[p] = "done"
            /\ result'[p] = "InvalidArgument"
            /\ ~sent'[p]
            /\ UNCHANGED shared
       /\ result'[p] = "InvalidArgument" => arg'[p] \notin Tiers \cup {None}]_vars

\* a download and a delete were both rejected while a context is cached
\* and model_path is set
C13_Witness ==
  \E p, q \in Procs :
    /\ op[p] = "download" /\ pc[p] = "done" /\ result[p] = "InvalidArgument"
    /\ op[q] = "delete" /\ pc[q] = "done" /\ result[q] = "InvalidArgument"
    /\ arg[p] \notin Tiers /\ arg[q] \notin Tiers
    /\ context # None /\ model_path # None

\* ------------------------------------------------------------------ C14
\* C14: a download never holds either mutex, its steps leave context,
\* model_path and both mutexes unchanged, and none of its steps waits:
\* whoever holds the context mutex, a download can be invoked and each of
\* its steps can be taken.
C14_DownloadOutsideGuard ==
  /\ [][\A p \in Procs :
          (op'[p] = "download" /\ pc'[p] # pc[p]) =>
             UNCHANGED <<context, model_path, ctxLock, pathLock>>]_vars
  /\ [](\A p \in Procs :
          /\ op[p] = "download" => ctxLock # p /\ pathLock # p
          /\ (pc[p] = "idle" /\ calls < MaxCalls) =>
                ENABLED call_download_whisper_model(p)
          /\ pc[p] = "dl_write" => ENABLED download_whisper_model_write(p)
          /\ pc[p] = "dl_write_end" =>
                ENABLED download_whisper_model_write_end(p))

\* a download has written its file and returned Ok while the transcribe
\* call that loaded the context from the other file still holds the guard
C14_Witness ==
  \E p, q \in Procs :
    /\ op[p] = "download" /\ pc[p] = "done" /\ result[p] = "Ok"
    /\ files[arg[p]] = "valid"
    /\ pc[q] = "tr_decode" /\ loadedBy = q /\ ctxLock = q
    /\ context \notin {None, arg[p]}

\* ------------------------------------------------------------------ C15
\* the segments joined, a separator between each two neighbours
RECURSIVE JoinWith(_, _)
JoinWith(segs, sep) ==
  IF segs = <<>> THEN <<>>
  ELSE IF Len(segs) = 1 THEN segs[1]
  ELSE segs[1] \o sep \o JoinWith(Tail(segs), sep)

\* t is s without its leading and its trailing whitespace
IsTrimmed(t, s) ==
  /\ t # <<>> => ~is_whitespace(t[1]) /\ ~is_whitespace(t[Len(t)])
  /\ \E lead \in 0..Len(s) :
       /\ lead + Len(t) <= Len(s)
       /\ SubSeq(s, lead + 1, lead + Len(t)) = t
       /\ \A k \in 1..Len(s) :
            (k <= lead \/ k > lead + Len(t)) => is_whitespace(s[k])

\* C15: when the read-back of the segments succeeds, the text returned is
\* the segments in increasing index order joined by one space, without
\* leading and trailing whitespace; all of them were read; no segments
\* give the empty string.
C15_JoinedAndTrimmed ==
  stage = "done" =>
    /\ i = Len(segments)
    /\ IsTrimmed(final_text, JoinWith(segments, <<" ">>))
    /\ segments = <<>> => final_text = <<>>

\* three segments without whitespace were read back: the text is the
\* first, a space, the second, a space, the third
C15_Witness ==
  /\ stage = "done"
  /\ Len(segments) = 3
  /\ \A k \in 1..3 :
       segments[k] # <<>> /\ \A j \in 1..Len(segments[k]) : segments[k][j] = "a"
  /\ final_text = segments[1] \o <<" ">> \o segments[2] \o <<" ">> \o segments[3]

\* ------------------------------------------------------------------ C16
\* C16: a write that fails partway leaves the file as it is, truncated
\* unless another download of the same file completed it meanwhile; the
\* probes of a status query take a truncated file for a downloaded one
\* (a truncated base file is reported as base), and the failure shows
\* only at the load: a transcribe call that loads from a truncated file
\* returns ModelLoadError, leaves the context empty and drops the guard.
C16_TruncatedSeenAtLoad ==
  [][\A p \in Procs :
       /\ (Step(p, "dl_write_end", "done") /\ result'[p] = "IOError") =>
            files' = files
       /\ (Step(p, "idle", "gs_base") /\ files["tiny"] = "truncated") =>
            tiny_exists'[p]
       /\ (pc[p] = "gs_base" /\ pc'[p] # "gs_base"
           /\ files["base"] = "truncated") =>
            pc'[p] = "gs_lock" /\ status'[p] = "base"
       /\ (pc[p] = "tr_load" /\ pc'[p] # "tr_load" /\ context = None
           /\ files[status[p]] = "truncated") =>
            /\ pc'[p] = "done"
            /\ result'[p] = "ModelLoadError"
            /\ context' = None
            /\ ctxLock' = NoProc]_vars

\* no download is writing, the base file is truncated, get_model_status
\* has reported base and a transcribe call has returned ModelLoadError
C16_Witness ==
  \E p, q \in Procs :
    /\ files["base"] = "truncated"
    /\ \A r \in Procs : pc[r] \notin {"dl_write", "dl_write_end"}
    /\ op[p] = "get_model_status" /\ pc[p] = "done" /\ result[p] = "base"
    /\ op[q] = "transcribe" /\ pc[q] = "done"
    /\ result[q] = "ModelLoadError"
    /\ context = None /\ ctxLock = NoProc

\* ------------------------------------------------------------------ C17
\* C17: every command that was invoked returns a result or an error in
\* the end: no call waits for a mutex for ever, whatever the others do.
C17_EveryCallReturns ==
  \A p \in Procs : (pc[p] \notin {"idle", "done"}) ~> (pc[p] = "done")

\* all the calls of the run have returned, among them a transcribe call
\* and a delete call that both needed the context mutex
C17_Witness ==
  /\ calls = MaxCalls
  /\ \A p \in Procs : pc[p] = "done"
  /\ \E p, q \in Procs :
       /\ op[p] = "transcribe" /\ result[p] = "Ok"
       /\ op[q] = "delete" /\ result[q] = "Ok"

\* ------------------------------------------------------------------ C18
\* C18: for two channels and N interleaved frames the downmix yields N
\* samples, the k-th being the arithmetic mean of the two values of frame
\* k (twice the sample is their sum); for one channel the samples pass
\* through unchanged, and so does their number.
C18_MonoDownmix ==
  stage = "mixed" =>
    IF channels = 2
    THEN /\ 2 * Len(mono_samples) = Len(samples)
         /\ \A k \in 1..Len(mono_samples) :
              2 * mono_samples[k] = samples[2 * k - 1] + samples[2 * k]
    ELSE mono_samples = samples

\* two frames were mixed, one of them the frame (4, -2), which gave 1,
\* as the frame (0.4, -0.2) gives 0.1
C18_Witness ==
  /\ stage = "mixed" /\ channels = 2
  /\ Len(samples) = 4 /\ Len(mono_samples) = 2
  /\ samples[3] = 4 /\ samples[4] = 0 - 2 /\ mono_samples[2] = 1

\* ------------------------------------------------------------------ C19
\* C19: a transcribe call that fails after its load step, with FormatError
\* or TranscriptionError, returns with the context still cached and the
\* guard dropped; a transcribe call that finds a context cached goes on
\* with it and invokes no load.
C19_NoRollback ==
  [][\A p \in Procs :
       /\ (pc[p] \in PastLoad /\ pc'[p] = "done"
           /\ result'[p] \in {"FormatError", "TranscriptionError"}) =>
            /\ context # None /\ context' = context
            /\ ctxLock = p /\ ctxLock' = NoProc
       /\ (pc[p] = "tr_load" /\ pc'[p] # "tr_load" /\ context # None) =>
            /\ pc'[p] = "tr_decode"
            /\ context' = context
            /\ nLoad' = nLoad /\ nLoadFail' = nLoadFail]_vars

\* the call that did the only load has failed at a later step, and the
\* next transcribe call is past its load step with that context
C19_Witness ==
  \E p, q \in Procs :
    /\ op[p] = "transcribe" /\ pc[p] = "done" /\ loadedBy = p
    /\ result[p] \in {"FormatError", "TranscriptionError"}
    /\ pc[q] \in PastLoad /\ ctxLock = q
    /\ nLoad = 1 /\ context # None

\* ------------------------------------------------------------------ C20
\* C20: a cached context changes only by being cleared, in the clear step
\* of a delete; a transcribe call whose status query resolved another file
\* than the one the context was loaded from keeps the cached context and
\* loads nothing; decoding and recognition leave the context as it is.
C20_CachedContextStays ==
  [][/\ (context # None /\ context' # context) =>
          /\ context' = None
          /\ \E p \in Procs : Step(p, "del_clear", "del_remove")
     /\ \A p \in Procs :
          /\ (pc[p] = "tr_load" /\ pc'[p] # "tr_load"
              /\ context # None /\ status[p] # context) =>
               /\ pc'[p] = "tr_decode"
               /\ context' = context
               /\ nLoad' = nLoad
          /\ (pc[p] \in PastLoad /\ pc'[p] # pc[p]) =>
               context' = context]_vars

\* the context was loaded from the tiny file, the base file has been
\* downloaded since and a status query has resolved it; a transcribe call
\* runs recognition on the tiny context, and there was one load
C20_Witness ==
  \E p, q \in Procs :
    /\ context = "tiny" /\ nLoad = 1
    /\ op[q] = "download" /\ pc[q] = "done" /\ result[q] = "Ok"
    /\ arg[q] = "base" /\ files["base"] = "valid"
    /\ model_path = "base"
    /\ pc[p] = "tr_run" /\ loadedBy # p

====
